---------------------------- MODULE Spec2Model ----------------------------
(***************************************************************************)
(* Model of Notebooks/BlackScholesMerton.ipynb: the closed-form pricer     *)
(* blackScholesCall, the payoff functions callPayoff / putPayoff and the   *)
(* binomial lattice pricer binomialPricer.                                 *)
(*                                                                         *)
(* The notebook computes in IEEE-754 binary floating point (Python float   *)
(* and numpy.float64).  The model keeps the structure of that arithmetic   *)
(* at a reduced size: a float is a sign, a kind (finite, infinite, nan)    *)
(* and a magnitude counted in units of 2^-FracBits, every operation rounds *)
(* its exact result to MantBits significant bits (ties to even), a result  *)
(* too small for the grid rounds to a signed zero and a result above       *)
(* MaxMag overflows to an infinity.  Operations on nan, infinities and     *)
(* zeros follow IEEE-754; where Python raises instead (float division by   *)
(* zero, range() of a float) the model raises.                             *)
(***************************************************************************)
EXTENDS Integers, Sequences, FiniteSets, TLC

\* ------------------------------------------------------------------------
\* The float format
\* ------------------------------------------------------------------------

\* Fraction bits of the grid: one unit is 2^-FracBits.
FracBits == 5

\* Significant bits kept by every rounding.
MantBits == 5

\* Bits of range above 1.0: magnitudes above 2^RangeBits overflow.
RangeBits == 9

Unit == 2^FracBits

MaxMag == 2^(FracBits + RangeBits)

\* Internal scale of the series that evaluate exp and log.
W == 2^9

Fin(sg, mag) == [k |-> "fin", s |-> sg, m |-> mag]

NaN == [k |-> "nan", s |-> 1, m |-> 0]

Inf(sg) == [k |-> "inf", s |-> sg, m |-> 0]

Zero(sg) == Fin(sg, 0)

IsNaN(a) == a.k = "nan"

IsInf(a) == a.k = "inf"

IsFin(a) == a.k = "fin"

IsZero(a) == a.k = "fin" /\ a.m = 0

\* The signed magnitude of a finite float, in grid units.
Val(a) == a.s * a.m

Abs(z) == IF z < 0 THEN -z ELSE z

Sign(z) == IF z < 0 THEN -1 ELSE 1

Max(y, z) == IF y >= z THEN y ELSE z

\* The number of low bits a magnitude of z units loses to keep MantBits
\* significant bits (z counted in units, z >= 0).
RECURSIVE Shift(_)
Shift(z) == IF z < 2^MantBits THEN 0 ELSE 1 + Shift(z \div 2)

\* num / den rounded to the nearest integer, ties to the even one
\* (num >= 0, den > 0).
RoundHalfEven(num, den) ==
    LET fl  == num \div den
        rem == num - fl * den
    IN  IF rem < den - rem THEN fl
        ELSE IF rem > den - rem THEN fl + 1
        ELSE IF fl % 2 = 0 THEN fl ELSE fl + 1

\* The float nearest to sg * num / den grid units (num >= 0, den > 0): the
\* rounding every operation ends with.
Round(sg, num, den) ==
    LET fl == num \div den
    IN  IF fl >= 2 * MaxMag THEN Inf(sg)
        ELSE LET q   == 2^Shift(fl)
                 mag == RoundHalfEven(num, den * q) * q
             IN  IF mag > MaxMag THEN Inf(sg) ELSE Fin(sg, mag)

\* Whether a magnitude is a value of the format.
Representable(mag) == mag <= MaxMag /\ Round(1, mag, 1).m = mag

\* The float of the rational num / den (a literal or an argument).
Ratio(num, den) == Round(Sign(num), Abs(num) * Unit, den)

FromInt(z) == Ratio(z, 1)

One == FromInt(1)

FNeg(a) == IF IsNaN(a) THEN NaN ELSE [a EXCEPT !.s = -a.s]

\* a + b
FAdd(a, b) ==
    IF IsNaN(a) \/ IsNaN(b) THEN NaN
    ELSE IF IsInf(a) /\ IsInf(b) THEN (IF a.s = b.s THEN a ELSE NaN)
    ELSE IF IsInf(a) THEN a
    ELSE IF IsInf(b) THEN b
    ELSE LET z == Val(a) + Val(b)
         IN  IF z = 0
             THEN (IF a.s = -1 /\ b.s = -1 THEN Zero(-1) ELSE Zero(1))
             ELSE Round(Sign(z), Abs(z), 1)

\* a - b
FSub(a, b) == FAdd(a, FNeg(b))

\* a * b
FMul(a, b) ==
    IF IsNaN(a) \/ IsNaN(b) THEN NaN
    ELSE IF (IsInf(a) /\ IsZero(b)) \/ (IsZero(a) /\ IsInf(b)) THEN NaN
    ELSE IF IsInf(a) \/ IsInf(b) THEN Inf(a.s * b.s)
    ELSE Round(a.s * b.s, a.m * b.m, Unit)

\* a / b in numpy: a zero divisor gives an infinity or nan, never an
\* exception.
FDiv(a, b) ==
    IF IsNaN(a) \/ IsNaN(b) THEN NaN
    ELSE IF IsInf(a) /\ IsInf(b) THEN NaN
    ELSE IF IsInf(a) THEN Inf(a.s * b.s)
    ELSE IF IsInf(b) THEN Zero(a.s * b.s)
    ELSE IF IsZero(b) THEN (IF IsZero(a) THEN NaN ELSE Inf(a.s * b.s))
    ELSE Round(a.s * b.s, a.m * Unit, b.m)

\* a < b, a <= b, a == b as IEEE-754 orders floats: false when either is
\* nan, the two zeros equal.
FLt(a, b) ==
    /\ ~IsNaN(a) /\ ~IsNaN(b)
    /\ IF IsInf(a) THEN a.s = -1 /\ ~(IsInf(b) /\ b.s = -1)
       ELSE IF IsInf(b) THEN b.s = 1
       ELSE Val(a) < Val(b)

FEq(a, b) ==
    /\ ~IsNaN(a) /\ ~IsNaN(b)
    /\ IF IsInf(a) \/ IsInf(b) THEN a = b ELSE Val(a) = Val(b)

FLe(a, b) == FLt(a, b) \/ FEq(a, b)

\* ------------------------------------------------------------------------
\* The numerical primitives the notebook imports (numpy, scipy.stats)
\* ------------------------------------------------------------------------

\* Sum of the Taylor series of exp at fW / W, scaled by W: the terms
\* tm, tm * fW / (j * W), ... until they vanish (0 <= fW <= W).
RECURSIVE Series(_, _, _)
Series(tm, j, fW) ==
    IF tm = 0 THEN 0 ELSE tm + Series((tm * fW) \div (j * W), j + 1, fW)

\* e, scaled by W.
EW == Series(W, 1, W)

\* e^z scaled by W, saturating once it passes the largest finite value.
RECURSIVE PowE(_)
PowE(z) ==
    IF z = 0 THEN W
    ELSE LET pw == PowE(z - 1)
         IN  IF pw >= 2^RangeBits * W THEN pw ELSE (pw * EW) \div W

\* exp(mag / Unit) scaled by W, for a magnitude mag >= 0 in grid units.
ExpW(mag) ==
    LET pw == PowE(mag \div Unit)
    IN  IF pw >= 2^RangeBits * W THEN pw
        ELSE (pw * Series(W, 1, (mag % Unit) * (W \div Unit))) \div W

\* np.exp
FExp(a) ==
    IF IsNaN(a) THEN NaN
    ELSE IF IsInf(a) THEN (IF a.s = 1 THEN Inf(1) ELSE Zero(1))
    ELSE LET ew == ExpW(a.m)
         IN  IF a.s = 1
             THEN (IF ew >= 2^RangeBits * W THEN Inf(1) ELSE Round(1, ew * Unit, W))
             ELSE (IF ew >= 2^RangeBits * W THEN Zero(1) ELSE Round(1, W * Unit, ew))

\* The integer square root: the largest rt with rt * rt <= z.
ISqrt(z) == CHOOSE rt \in 0..Max(z, 1) : rt * rt <= z /\ z < (rt + 1) * (rt + 1)

\* np.sqrt: nan (with a warning, no exception) below zero.
FSqrt(a) ==
    IF IsNaN(a) THEN NaN
    ELSE IF IsZero(a) THEN a
    ELSE IF a.s = -1 THEN NaN
    ELSE IF IsInf(a) THEN a
    ELSE LET z  == a.m * Unit
             rt == ISqrt(z)
         IN  Round(1, IF z - rt * rt > rt THEN rt + 1 ELSE rt, 1)

\* Sum of the series of atanh at zW / W, scaled by W: tm / j, then the
\* same with tm * (zW / W)^2 and j + 2, until the terms vanish.
RECURSIVE AtanhSeries(_, _, _)
AtanhSeries(tm, j, zW) ==
    IF tm = 0 THEN 0
    ELSE tm \div j + AtanhSeries((((tm * zW) \div W) * zW) \div W, j + 2, zW)

\* ln(num / den) scaled by W for num / den in [1, 2): 2 atanh((x-1)/(x+1)).
LnMantW(num, den) ==
    LET zW == ((num - den) * W) \div (num + den)
    IN  2 * AtanhSeries(zW, 1, zW)

\* ln 2, scaled by W.
Ln2W == LnMantW(2, 1)

\* ln(num / den) scaled by W (num, den > 0): powers of two are taken out
\* until the ratio lies in [1, 2).
RECURSIVE LnW(_, _)
LnW(num, den) ==
    IF num >= 2 * den THEN Ln2W + LnW(num, 2 * den)
    ELSE IF num < den THEN LnW(2 * num, den) - Ln2W
    ELSE LnMantW(num, den)

\* np.log: -inf at zero and nan below it (warnings, no exception).
FLog(a) ==
    IF IsNaN(a) THEN NaN
    ELSE IF IsZero(a) THEN Inf(-1)
    ELSE IF a.s = -1 THEN NaN
    ELSE IF IsInf(a) THEN a
    ELSE LET lw == LnW(a.m, Unit)
         IN  IF lw = 0 THEN Zero(1) ELSE Round(Sign(lw), Abs(lw) * Unit, W)

\* scipy.stats.norm.cdf: 0 and 1 at the infinities, nan at nan, and on a
\* finite argument the logistic approximation 1 / (1 + exp(-1.7 x)).
NormCdf(a) ==
    IF IsNaN(a) THEN NaN
    ELSE IF IsInf(a) THEN (IF a.s = 1 THEN One ELSE Zero(1))
    ELSE FDiv(One, FAdd(One, FExp(FMul(Ratio(-17, 10), a))))

\* np.maximum: nan when either argument is nan.
Maximum(a, b) ==
    IF IsNaN(a) \/ IsNaN(b) THEN NaN
    ELSE IF FLt(a, b) THEN b
    ELSE IF FLt(b, a) THEN a
    ELSE IF a.s = 1 THEN a ELSE b

\* a ** e for an integer e >= 0 (numpy: anything ** 0 is 1.0).
RECURSIVE Pow(_, _)
Pow(a, e) == IF e = 0 THEN One ELSE FMul(Pow(a, e - 1), a)

\* The binomial coefficient.
RECURSIVE Comb(_, _)
Comb(z, j) ==
    IF j = 0 \/ j = z THEN 1 ELSE Comb(z - 1, j - 1) + Comb(z - 1, j)

\* scipy.stats.binom.pmf(j, z, pr) for 0 <= j <= z: nan unless
\* 0 <= pr <= 1.
BinomPmf(j, z, pr) ==
    IF IsNaN(pr) \/ ~FLe(Zero(1), pr) \/ ~FLe(pr, One) THEN NaN
    ELSE FMul(FMul(FromInt(Comb(z, j)), Pow(pr, j)), Pow(FSub(One, pr), z - j))

\* f"{x:0.4f}": the number of ten-thousandths printed (ties to even), or
\* the text Python prints for an infinity or nan.
Format4(a) ==
    IF IsNaN(a) THEN [text |-> "nan", s |-> 1, tenK |-> 0]
    ELSE IF IsInf(a) THEN [text |-> "inf", s |-> a.s, tenK |-> 0]
    ELSE [text |-> "digits", s |-> a.s, tenK |-> RoundHalfEven(a.m * 10000, Unit)]

\* ------------------------------------------------------------------------
\* Python numbers: the step count n is an int or a float
\* ------------------------------------------------------------------------

\* An int or float holding twice / 2 (a float argument may be a half).
PyInt(z) == [ty |-> "int", twice |-> 2 * z]

PyFloat(halves) == [ty |-> "float", twice |-> halves]

\* int + 1 is an int, float + 1 a float.
PyAddOne(x) == [x EXCEPT !.twice = @ + 2]

\* The float a Python number converts to in a mixed operation.
ToFloat(x) == Ratio(x.twice, 2)

\* ------------------------------------------------------------------------
\* Payoff functions
\* ------------------------------------------------------------------------

\* def callPayoff(spot, strike): return np.maximum(spot - strike, 0.0)
callPayoff(spot, strike) == Maximum(FSub(spot, strike), Zero(1))

\* def putPayoff(spot, strike): return np.maximum(strike - spot, 0.0)
putPayoffUnfloored(spot, strike) == FSub(strike, spot)

putPayoff(spot, strike) == Maximum(FSub(strike, spot), Zero(1))

\* payoff(spotT, K) for the function object passed as payoff.
ApplyPayoff(fn, spot, strike) ==
    IF fn = "callPayoff" THEN callPayoff(spot, strike)
    ELSE putPayoff(spot, strike)

\* ------------------------------------------------------------------------
\* State
\* ------------------------------------------------------------------------

\* The invocations of binomialPricer that may be in progress at once.
Calls == {1, 2}

VARIABLES
    args,     \* args[c]: the arguments S, K, r, v, q, T, n, payoff, verbose
    pc,       \* pc[c]: the line call c executes next, or how it ended
    nodes,    \* the locals of binomialPricer, one frame per call
    h,
    u,
    d,
    pstar,
    price,
    i,
    prob,
    spotT,
    po,
    ret,      \* ret[c]: the value returned
    exc,      \* exc[c]: the exception raised
    stdout,   \* what print() has written, in order, tagged with the call
    visited,  \* visited[c]: history of the payoff calls made by call c
    bsArgs,   \* blackScholesCall: spot, strike, vol, rate, expiry, div
    bsPc,
    d1,
    d2,
    callPrc,
    bsRet,
    bsExc,
    pfArgs,   \* a payoff evaluation: the terminal price and the strike
    pfPc,
    pfCall,
    pfPut

latticeVars ==
    <<args, pc, nodes, h, u, d, pstar, price, i, prob, spotT, po, ret, exc,
      stdout, visited>>

bsVars == <<bsArgs, bsPc, d1, d2, callPrc, bsRet, bsExc>>

pfVars == <<pfArgs, pfPc, pfCall, pfPut>>

vars == <<latticeVars, bsVars, pfVars>>

\* A local that no statement has assigned yet.
Unbound == [k |-> "unbound", s |-> 1, m |-> 0]

UnboundNum == [ty |-> "unbound", twice |-> 0]

UnboundInt == -1

NoArgs ==
    [S |-> Unbound, K |-> Unbound, r |-> Unbound, v |-> Unbound,
     q |-> Unbound, T |-> Unbound, n |-> UnboundNum, payoff |-> "none",
     verbose |-> FALSE]

NoBsArgs ==
    [spot |-> Unbound, strike |-> Unbound, vol |-> Unbound, rate |-> Unbound,
     expiry |-> Unbound, div |-> Unbound]

NoPfArgs == [spot |-> Unbound, strike |-> Unbound]

\* ------------------------------------------------------------------------
\* Bounds and argument sets
\* ------------------------------------------------------------------------

\* The largest step count tried.
MaxN == 3

\* The largest magnitude (in grid units) a payoff evaluation is tried on.
MaxPayoffMag == 40

SSet == {Ratio(1, 1), Ratio(3, 2)}

KSet == {Ratio(1, 1), Ratio(5, 4)}

RSet == {Ratio(0, 1), Ratio(1, 4), Ratio(1, 1)}

QSet == {Ratio(0, 1), Ratio(1, 4)}

VSet == {Ratio(0, 1), Ratio(1, 4), Ratio(1, 2)}

TSet == {Ratio(0, 1), Ratio(1, 4), Ratio(1, 1)}

\* Step counts: the ints -5, -1, 0, 1..MaxN and the floats 2.0 and 2.5.
NSet == {PyInt(z) : z \in {-5, -1, 0} \cup (1..MaxN)} \cup {PyFloat(4), PyFloat(5)}

PayoffSet == {"callPayoff", "putPayoff"}

ArgSet ==
    [S : SSet, K : KSet, r : RSet, v : VSet, q : QSet, T : TSet, n : NSet,
     payoff : PayoffSet, verbose : BOOLEAN]

\* The narrower set two concurrent calls draw from.
PairArgSet ==
    [S : {Ratio(3, 2)}, K : {Ratio(1, 1)}, r : {Ratio(1, 4)},
     v : {Ratio(0, 1), Ratio(1, 2)}, q : {Ratio(0, 1)}, T : {Ratio(1, 1)},
     n : {PyInt(0), PyInt(1), PyInt(2), PyFloat(5)},
     payoff : PayoffSet, verbose : BOOLEAN]

BsArgSet ==
    [spot : {Ratio(-1, 1), Ratio(0, 1), Ratio(1, 1), Ratio(5, 4)},
     strike : {Ratio(-1, 1), Ratio(0, 1), Ratio(1, 1)},
     vol : {Ratio(-1, 4), Ratio(0, 1), Ratio(1, 4), Ratio(1, 2)},
     rate : {Ratio(0, 1), Ratio(1, 4)},
     expiry : {Ratio(-1, 4), Ratio(0, 1), Ratio(1, 4), Ratio(1, 1)},
     div : {Ratio(0, 1), Ratio(1, 4)}]

\* The non-negative floats up to MaxPayoffMag units.
PfValues == {Fin(1, mag) : mag \in {z \in 0..MaxPayoffMag : Representable(z)}}

\* ------------------------------------------------------------------------
\* binomialPricer(S, K, r, v, q, T, n, payoff, verbose), line by line
\* ------------------------------------------------------------------------

Raise(c, name) ==
    /\ pc' = [pc EXCEPT ![c] = "raised"]
    /\ exc' = [exc EXCEPT ![c] = name]

\* The storage of the local price of call c: each call has its own.
PriceCellShared(c) == 1

PriceCell(c) == c

\* nodes = n + 1
NodesOffByOne(x) == x

Nodes(x) == PyAddOne(x)

\* range(nodes): the indices 0 .. nodes - 1 of an int (none when the int
\* is not positive).
RangeOf(x) == 0..(x.twice \div 2 - 1)

\* (r - q) * h + v * np.sqrt(h) and (r - q) * h - v * np.sqrt(h)
UpExponent(a, hh) == FAdd(FMul(FSub(a.r, a.q), hh), FMul(a.v, FSqrt(hh)))

DownExponentPlus(a, hh) == FAdd(FMul(FSub(a.r, a.q), hh), FMul(a.v, FSqrt(hh)))

DownExponent(a, hh) == FSub(FMul(FSub(a.r, a.q), hh), FMul(a.v, FSqrt(hh)))

\* (np.exp((r - q) * h) - d) / (u - d)
Pstar(a, hh, uu, dd) ==
    FDiv(FSub(FExp(FMul(FSub(a.r, a.q), hh)), dd), FSub(uu, dd))

\* S * (u ** i) * (d ** (n - i))
SpotT(a, uu, dd, j) ==
    FMul(FMul(a.S, Pow(uu, j)), Pow(dd, a.n.twice \div 2 - j))

\* np.exp(-r * T)
Discount(a) == FExp(FMul(FNeg(a.r), a.T))

\* line 125: nodes = n + 1
SetNodes(c) ==
    /\ pc[c] = "l125"
    /\ nodes' = [nodes EXCEPT ![c] = Nodes(args[c].n)]
    /\ pc' = [pc EXCEPT ![c] = "l126"]
    /\ UNCHANGED <<args, h, u, d, pstar, price, i, prob, spotT, po, ret, exc,
                   stdout, visited, bsVars, pfVars>>

\* line 126: h = T / n; Python raises ZeroDivisionError on a zero divisor.
SetH(c) ==
    /\ pc[c] = "l126"
    /\ IF args[c].n.twice = 0
       THEN /\ Raise(c, "ZeroDivisionError")
            /\ UNCHANGED h
       ELSE /\ h' = [h EXCEPT ![c] = FDiv(args[c].T, ToFloat(args[c].n))]
            /\ pc' = [pc EXCEPT ![c] = "l127"]
            /\ UNCHANGED exc
    /\ UNCHANGED <<args, nodes, u, d, pstar, price, i, prob, spotT, po, ret,
                   stdout, visited, bsVars, pfVars>>

\* line 127: u = np.exp((r - q) * h + v * np.sqrt(h))
SetU(c) ==
    /\ pc[c] = "l127"
    /\ u' = [u EXCEPT ![c] = FExp(UpExponent(args[c], h[c]))]
    /\ pc' = [pc EXCEPT ![c] = "l128"]
    /\ UNCHANGED <<args, nodes, h, d, pstar, price, i, prob, spotT, po, ret,
                   exc, stdout, visited, bsVars, pfVars>>

\* line 128: d = np.exp((r - q) * h - v * np.sqrt(h))
SetD(c) ==
    /\ pc[c] = "l128"
    /\ d' = [d EXCEPT ![c] = FExp(DownExponent(args[c], h[c]))]
    /\ pc' = [pc EXCEPT ![c] = "l129"]
    /\ UNCHANGED <<args, nodes, h, u, pstar, price, i, prob, spotT, po, ret,
                   exc, stdout, visited, bsVars, pfVars>>

\* line 129: pstar = (np.exp((r - q) * h) - d) / (u - d); numpy divides by
\* zero with a warning, not an exception.
SetPstar(c) ==
    /\ pc[c] = "l129"
    /\ pstar' = [pstar EXCEPT ![c] = Pstar(args[c], h[c], u[c], d[c])]
    /\ pc' = [pc EXCEPT ![c] = "l131"]
    /\ UNCHANGED <<args, nodes, h, u, d, price, i, prob, spotT, po, ret, exc,
                   stdout, visited, bsVars, pfVars>>

\* line 131: price = 0.0
InitPrice(c) ==
    /\ pc[c] = "l131"
    /\ price' = [price EXCEPT ![PriceCell(c)] = Zero(1)]
    /\ pc' = [pc EXCEPT ![c] = "l133"]
    /\ UNCHANGED <<args, nodes, h, u, d, pstar, i, prob, spotT, po, ret, exc,
                   stdout, visited, bsVars, pfVars>>

\* line 133: for i in range(nodes): range() raises TypeError on a float;
\* otherwise i takes the next index, or the loop ends after the last one.
LoopNext(c) ==
    /\ pc[c] = "l133"
    /\ IF nodes[c].ty # "int"
       THEN /\ Raise(c, "TypeError")
            /\ UNCHANGED i
       ELSE LET nxt == IF i[c] = UnboundInt THEN 0 ELSE i[c] + 1
            IN  /\ IF nxt \in RangeOf(nodes[c])
                   THEN /\ i' = [i EXCEPT ![c] = nxt]
                        /\ pc' = [pc EXCEPT ![c] = "l134"]
                   ELSE /\ pc' = [pc EXCEPT ![c] = "l141"]
                        /\ UNCHANGED i
                /\ UNCHANGED exc
    /\ UNCHANGED <<args, nodes, h, u, d, pstar, price, prob, spotT, po, ret,
                   stdout, visited, bsVars, pfVars>>

\* line 134: prob = binom.pmf(i, n, pstar)
SetProb(c) ==
    /\ pc[c] = "l134"
    /\ prob' = [prob EXCEPT ![c] =
                  BinomPmf(i[c], args[c].n.twice \div 2, pstar[c])]
    /\ pc' = [pc EXCEPT ![c] = "l135"]
    /\ UNCHANGED <<args, nodes, h, u, d, pstar, price, i, spotT, po, ret, exc,
                   stdout, visited, bsVars, pfVars>>

\* line 135: spotT = S * (u ** i) * (d ** (n - i))
SetSpotT(c) ==
    /\ pc[c] = "l135"
    /\ spotT' = [spotT EXCEPT ![c] = SpotT(args[c], u[c], d[c], i[c])]
    /\ pc' = [pc EXCEPT ![c] = "l136"]
    /\ UNCHANGED <<args, nodes, h, u, d, pstar, price, i, prob, po, ret, exc,
                   stdout, visited, bsVars, pfVars>>

\* line 136: po = payoff(spotT, K)
CallPayoff(c) ==
    /\ pc[c] = "l136"
    /\ po' = [po EXCEPT ![c] = ApplyPayoff(args[c].payoff, spotT[c], args[c].K)]
    /\ visited' = [visited EXCEPT ![c] =
                     Append(@, [idx |-> i[c], spot |-> spotT[c],
                                strike |-> args[c].K, prob |-> prob[c],
                                po |-> po'[c]])]
    /\ pc' = [pc EXCEPT ![c] = "l137"]
    /\ UNCHANGED <<args, nodes, h, u, d, pstar, price, i, prob, spotT, ret,
                   exc, stdout, bsVars, pfVars>>

\* line 137: price += po * prob
AccumulateOnlyVerbose(c) ==
    /\ pc[c] = "l137"
    /\ price' = [price EXCEPT ![PriceCell(c)] =
                   IF args[c].verbose THEN FAdd(@, FMul(po[c], prob[c])) ELSE @]
    /\ pc' = [pc EXCEPT ![c] = "l138"]
    /\ UNCHANGED <<args, nodes, h, u, d, pstar, i, prob, spotT, po, ret, exc,
                   stdout, visited, bsVars, pfVars>>

Accumulate(c) ==
    /\ pc[c] = "l137"
    /\ price' = [price EXCEPT ![PriceCell(c)] = FAdd(@, FMul(po[c], prob[c]))]
    /\ pc' = [pc EXCEPT ![c] = "l138"]
    /\ UNCHANGED <<args, nodes, h, u, d, pstar, i, prob, spotT, po, ret, exc,
                   stdout, visited, bsVars, pfVars>>

\* lines 138-139: if verbose: print(f"({spotT:0.4f}, {po:0.4f}, {prob:0.4f})")
Emit(c) ==
    /\ pc[c] = "l138"
    /\ stdout' = IF args[c].verbose
                 THEN Append(stdout, [call |-> c, spotT |-> Format4(spotT[c]),
                                      po |-> Format4(po[c]),
                                      prob |-> Format4(prob[c])])
                 ELSE stdout
    /\ pc' = [pc EXCEPT ![c] = "l133"]
    /\ UNCHANGED <<args, nodes, h, u, d, pstar, price, i, prob, spotT, po, ret,
                   exc, visited, bsVars, pfVars>>

\* line 141: price *= np.exp(-r * T)
ApplyDiscount(c) ==
    /\ pc[c] = "l141"
    /\ price' = [price EXCEPT ![PriceCell(c)] = FMul(@, Discount(args[c]))]
    /\ pc' = [pc EXCEPT ![c] = "l143"]
    /\ UNCHANGED <<args, nodes, h, u, d, pstar, i, prob, spotT, po, ret, exc,
                   stdout, visited, bsVars, pfVars>>

\* line 143: return price
Return(c) ==
    /\ pc[c] = "l143"
    /\ ret' = [ret EXCEPT ![c] = price[PriceCell(c)]]
    /\ pc' = [pc EXCEPT ![c] = "returned"]
    /\ UNCHANGED <<args, nodes, h, u, d, pstar, price, i, prob, spotT, po, exc,
                   stdout, visited, bsVars, pfVars>>

binomialPricer(c) ==
    \/ SetNodes(c)
    \/ SetH(c)
    \/ SetU(c)
    \/ SetD(c)
    \/ SetPstar(c)
    \/ InitPrice(c)
    \/ LoopNext(c)
    \/ SetProb(c)
    \/ SetSpotT(c)
    \/ CallPayoff(c)
    \/ Accumulate(c)
    \/ Emit(c)
    \/ ApplyDiscount(c)
    \/ Return(c)

\* The frames before any call: nothing bound.
NoFrames ==
    /\ nodes = [c \in Calls |-> UnboundNum]
    /\ h = [c \in Calls |-> Unbound]
    /\ u = [c \in Calls |-> Unbound]
    /\ d = [c \in Calls |-> Unbound]
    /\ pstar = [c \in Calls |-> Unbound]
    /\ price = [c \in Calls |-> Unbound]
    /\ i = [c \in Calls |-> UnboundInt]
    /\ prob = [c \in Calls |-> Unbound]
    /\ spotT = [c \in Calls |-> Unbound]
    /\ po = [c \in Calls |-> Unbound]
    /\ ret = [c \in Calls |-> Unbound]
    /\ exc = [c \in Calls |-> "none"]
    /\ stdout = <<>>
    /\ visited = [c \in Calls |-> <<>>]

BsIdle ==
    /\ bsArgs = NoBsArgs
    /\ bsPc = "idle"
    /\ d1 = Unbound
    /\ d2 = Unbound
    /\ callPrc = Unbound
    /\ bsRet = Unbound
    /\ bsExc = "none"

PfIdle ==
    /\ pfArgs = NoPfArgs
    /\ pfPc = "idle"
    /\ pfCall = Unbound
    /\ pfPut = Unbound

\* One call of binomialPricer, with any arguments of ArgSet.
Init ==
    /\ \E a \in ArgSet : args = [c \in Calls |-> IF c = 1 THEN a ELSE NoArgs]
    /\ pc = [c \in Calls |-> IF c = 1 THEN "l125" ELSE "idle"]
    /\ NoFrames
    /\ BsIdle
    /\ PfIdle

Next == \E c \in Calls : binomialPricer(c)

Spec == Init /\ [][Next]_vars

\* Two calls in progress at once, their statements interleaved in any
\* order: the second has the arguments of the first with any step count
\* of the pair's set and any setting of verbose.
InitPair ==
    /\ \E a \in PairArgSet, b \in PairArgSet :
          /\ b = [a EXCEPT !.n = b.n, !.verbose = b.verbose]
          /\ args = [c \in Calls |-> IF c = 1 THEN a ELSE b]
    /\ pc = [c \in Calls |-> "l125"]
    /\ NoFrames
    /\ BsIdle
    /\ PfIdle

SpecPair == InitPair /\ [][Next]_vars

\* ------------------------------------------------------------------------
\* binomialPricer run from start to end with nothing else running
\* ------------------------------------------------------------------------

\* price after the loop body has run for the indices 0 .. cnt - 1.
RECURSIVE PriceAfter(_, _, _, _, _)
PriceAfter(a, uu, dd, ps, cnt) ==
    IF cnt = 0 THEN Zero(1)
    ELSE FAdd(PriceAfter(a, uu, dd, ps, cnt - 1),
              FMul(ApplyPayoff(a.payoff, SpotT(a, uu, dd, cnt - 1), a.K),
                   BinomPmf(cnt - 1, a.n.twice \div 2, ps)))

\* How the call ends: the exception raised, or the price returned.
RunAlone(a) ==
    IF a.n.twice = 0 THEN [exc |-> "ZeroDivisionError", ret |-> Unbound]
    ELSE IF a.n.ty # "int" THEN [exc |-> "TypeError", ret |-> Unbound]
    ELSE LET hh == FDiv(a.T, ToFloat(a.n))
             uu == FExp(UpExponent(a, hh))
             dd == FExp(DownExponent(a, hh))
             ps == Pstar(a, hh, uu, dd)
             cnt == Cardinality(RangeOf(Nodes(a.n)))
         IN  [exc |-> "none",
              ret |-> FMul(PriceAfter(a, uu, dd, ps, cnt), Discount(a))]

\* ------------------------------------------------------------------------
\* blackScholesCall(spot, strike, vol, rate, expiry, div), line by line
\* ------------------------------------------------------------------------

\* vol * np.sqrt(expiry)
VolSqrt(a) == FMul(a.vol, FSqrt(a.expiry))

\* line 65: d1 = (np.log(spot / strike) + (rate - div + 0.5 * vol * vol)
\* * expiry) / (vol * np.sqrt(expiry)); spot / strike divides two Python
\* floats and raises ZeroDivisionError on a zero strike, the outer division
\* is numpy's and does not raise.
BsSetD1 ==
    /\ bsPc = "l65"
    /\ IF IsZero(bsArgs.strike)
       THEN /\ bsPc' = "raised"
            /\ bsExc' = "ZeroDivisionError"
            /\ UNCHANGED d1
       ELSE /\ d1' = FDiv(FAdd(FLog(FDiv(bsArgs.spot, bsArgs.strike)),
                               FMul(FAdd(FSub(bsArgs.rate, bsArgs.div),
                                         FMul(FMul(Ratio(1, 2), bsArgs.vol),
                                              bsArgs.vol)),
                                    bsArgs.expiry)),
                          VolSqrt(bsArgs))
            /\ bsPc' = "l66"
            /\ UNCHANGED bsExc
    /\ UNCHANGED <<bsArgs, d2, callPrc, bsRet, latticeVars, pfVars>>

\* line 66: d2 = d1 - (vol * np.sqrt(expiry))
BsSetD2 ==
    /\ bsPc = "l66"
    /\ d2' = FSub(d1, VolSqrt(bsArgs))
    /\ bsPc' = "l67"
    /\ UNCHANGED <<bsArgs, d1, callPrc, bsRet, bsExc, latticeVars, pfVars>>

\* line 67: callPrc = (spot * np.exp(-div * expiry) * norm.cdf(d1))
\*                    - (strike * np.exp(-rate * expiry) * norm.cdf(d2))
BsSetCallPrc ==
    /\ bsPc = "l67"
    /\ callPrc' =
          FSub(FMul(FMul(bsArgs.spot,
                         FExp(FMul(FNeg(bsArgs.div), bsArgs.expiry))),
                    NormCdf(d1)),
               FMul(FMul(bsArgs.strike,
                         FExp(FMul(FNeg(bsArgs.rate), bsArgs.expiry))),
                    NormCdf(d2)))
    /\ bsPc' = "l69"
    /\ UNCHANGED <<bsArgs, d1, d2, bsRet, bsExc, latticeVars, pfVars>>

\* line 69: return callPrc
BsReturn ==
    /\ bsPc = "l69"
    /\ bsRet' = callPrc
    /\ bsPc' = "returned"
    /\ UNCHANGED <<bsArgs, d1, d2, callPrc, bsExc, latticeVars, pfVars>>

blackScholesCall == BsSetD1 \/ BsSetD2 \/ BsSetCallPrc \/ BsReturn

LatticeIdle ==
    /\ args = [c \in Calls |-> NoArgs]
    /\ pc = [c \in Calls |-> "idle"]
    /\ NoFrames

\* One call of blackScholesCall, with any arguments of BsArgSet.
InitBS ==
    /\ bsArgs \in BsArgSet
    /\ bsPc = "l65"
    /\ d1 = Unbound
    /\ d2 = Unbound
    /\ callPrc = Unbound
    /\ bsRet = Unbound
    /\ bsExc = "none"
    /\ LatticeIdle
    /\ PfIdle

SpecBS == InitBS /\ [][blackScholesCall]_vars

\* ------------------------------------------------------------------------
\* The payoff functions on their own
\* ------------------------------------------------------------------------

\* callPayoff(spot, strike) and putPayoff(spot, strike) evaluated on the
\* same arguments.
EvalPayoffs ==
    /\ pfPc = "start"
    /\ pfCall' = callPayoff(pfArgs.spot, pfArgs.strike)
    /\ pfPut' = putPayoff(pfArgs.spot, pfArgs.strike)
    /\ pfPc' = "done"
    /\ UNCHANGED <<pfArgs, latticeVars, bsVars>>

\* Any non-negative terminal price and strike up to MaxPayoffMag units.
InitPayoff ==
    /\ pfArgs \in [spot : PfValues, strike : PfValues]
    /\ pfPc = "start"
    /\ pfCall = Unbound
    /\ pfPut = Unbound
    /\ LatticeIdle
    /\ BsIdle

SpecPayoff == InitPayoff /\ [][EvalPayoffs]_vars

\* ------------------------------------------------------------------------
\* Properties
\* ------------------------------------------------------------------------

Positive(a) == FLt(Zero(1), a)

NonNegative(a) == FLe(Zero(1), a)

\* n is a positive integer.
PositiveInt(x) == x.ty = "int" /\ x.twice >= 2

\* S, K, sigma and T strictly positive.
ValidMarket(a) ==
    Positive(a.S) /\ Positive(a.K) /\ Positive(a.v) /\ Positive(a.T)

Started(c) == pc[c] # "idle"

\* The statements of binomialPricer: each has an action, enabled whenever
\* the call stands at it.
Lines ==
    {"l125", "l126", "l127", "l128", "l129", "l131", "l133", "l134", "l135",
     "l136", "l137", "l138", "l141", "l143"}

Ended(c) == pc[c] \in {"returned", "raised"}

\* The records call c has printed, in order.
Printed(c) == SelectSeq(stdout, LAMBDA rec : rec.call = c)

\* C1: with otherwise-valid market parameters, a lattice call whose step
\* count is not a positive integer (0, negative, or not an integer) never
\* returns a price.
C1_BadStepCountNeverReturns ==
    \A c \in Calls :
        (Started(c) /\ ValidMarket(args[c]) /\ ~PositiveInt(args[c].n))
            => pc[c] # "returned"

\* S, K, sigma and T of a closed-form call strictly positive.
ValidBs(a) ==
    Positive(a.spot) /\ Positive(a.strike) /\ Positive(a.vol)
    /\ Positive(a.expiry)

\* C2: the closed-form pricer never returns a price when one of sigma, T,
\* S, K is not strictly positive, and never raises when all four are.
C2_ClosedFormRejectsInvalid ==
    /\ (bsPc # "idle" /\ ~ValidBs(bsArgs)) => bsPc # "returned"
    /\ (bsPc # "idle" /\ ValidBs(bsArgs)) => bsPc # "raised"

\* C3: the lattice pricer, called with a positive integer step count,
\* returns a price only when 0 < p* < 1 and u != d; a degenerate lattice
\* never returns.
C3_DegenerateLatticeNeverReturns ==
    \A c \in Calls :
        (pc[c] = "returned" /\ PositiveInt(args[c].n))
            => /\ Positive(pstar[c])
               /\ FLt(pstar[c], One)
               /\ ~IsNaN(u[c]) /\ ~IsNaN(d[c]) /\ ~FEq(u[c], d[c])

\* C4: every price the lattice pricer returns is non-negative, and so is
\* the accumulator price at every point of the loop.
C4_ReturnedPriceNonNegative ==
    \A c \in Calls :
        /\ pc[c] = "returned" => NonNegative(ret[c])
        /\ pc[c] \in {"l133", "l134", "l135", "l136", "l137", "l138", "l141", "l143"}
              => NonNegative(price[PriceCell(c)])

\* C5: two calls whose arguments differ at most in verbose end the same
\* way, return the same price and make the same payoff calls at the same
\* terminal nodes; verbose only decides whether the nodes are printed.
C5_VerboseDoesNotChangeResult ==
    \A c1 \in Calls, c2 \in Calls :
        (/\ Ended(c1) /\ Ended(c2)
         /\ args[c2] = [args[c1] EXCEPT !.verbose = args[c2].verbose])
            => /\ pc[c1] = pc[c2]
               /\ ret[c1] = ret[c2]
               /\ exc[c1] = exc[c2]
               /\ visited[c1] = visited[c2]
               /\ Len(Printed(c1)) = IF args[c1].verbose THEN Len(visited[c1]) ELSE 0

\* C5 witness: a verbose call and a silent call with otherwise equal
\* arguments have both returned after visiting at least two nodes.
C5_Witness ==
    /\ pc[1] = "returned" /\ pc[2] = "returned"
    /\ args[1].verbose /\ ~args[2].verbose
    /\ args[2] = [args[1] EXCEPT !.verbose = FALSE]
    /\ Len(visited[1]) >= 2
    /\ Len(Printed(1)) >= 2
    /\ Positive(ret[1])

\* price after the first cnt payoff calls recorded in a history.
RECURSIVE SumOver(_, _)
SumOver(hist, cnt) ==
    IF cnt = 0 THEN Zero(1)
    ELSE FAdd(SumOver(hist, cnt - 1), FMul(hist[cnt].po, hist[cnt].prob))

\* C6: for an integer n >= 1 the call visits the terminal nodes 0, 1, ...
\* in increasing order, each once, node j at the terminal price
\* S u^j d^(n-j), with one payoff call on (that price, K) and, when verbose,
\* one printed record (terminal price, payoff, probability) per node; it
\* never raises and is always at a statement that executes or has returned,
\* its loop index never passes n, and when it returns it has visited
\* exactly n + 1 nodes and returns the discounted sum.
C6_VisitsEachNodeOnce ==
    \A c \in Calls :
        (Started(c) /\ PositiveInt(args[c].n))
            => LET a    == args[c]
                   hist == visited[c]
               IN  /\ pc[c] \in Lines \cup {"returned"}
                   /\ i[c] <= a.n.twice \div 2
                   /\ Len(hist) <= a.n.twice \div 2 + 1
                   /\ Len(hist) = IF pc[c] \in {"l134", "l135", "l136"}
                                  THEN i[c] ELSE i[c] + 1
                   /\ \A j \in 1..Len(hist) :
                         /\ hist[j].idx = j - 1
                         /\ hist[j].spot = SpotT(a, u[c], d[c], j - 1)
                         /\ hist[j].strike = a.K
                         /\ hist[j].po = ApplyPayoff(a.payoff, hist[j].spot, a.K)
                   /\ Len(Printed(c)) <= Len(hist)
                   /\ \A j \in 1..Len(Printed(c)) :
                         /\ a.verbose
                         /\ Printed(c)[j].spotT = Format4(hist[j].spot)
                         /\ Printed(c)[j].po = Format4(hist[j].po)
                         /\ Printed(c)[j].prob = Format4(hist[j].prob)
                   /\ pc[c] \in {"l141", "l143", "returned"}
                         => /\ Len(hist) = a.n.twice \div 2 + 1
                            /\ Len(Printed(c)) = IF a.verbose THEN Len(hist) ELSE 0
                   /\ pc[c] = "returned"
                         => ret[c] = FMul(SumOver(hist, Len(hist)), Discount(a))

\* C6 witness: a verbose call with n = MaxN has returned after MaxN + 1
\* payoff calls and MaxN + 1 printed records.
C6_Witness ==
    /\ pc[1] = "returned"
    /\ args[1].n = PyInt(MaxN)
    /\ args[1].verbose
    /\ Len(visited[1]) = MaxN + 1
    /\ Len(Printed(1)) = MaxN + 1

\* The spacing of the floats around a magnitude: one unit in the last
\* place.
Ulp(mag) == 2^Shift(mag)

\* Call(S_T, K) + K and Put(S_T, K) + S_T as the floats they evaluate to.
CallPlusStrike == FAdd(pfCall, pfArgs.strike)

PutPlusSpot == FAdd(pfPut, pfArgs.spot)

\* C7 as stated: for non-negative S_T and K both payoffs are non-negative
\* and Call(S_T, K) + K == Put(S_T, K) + S_T.
C7_PayoffIdentityExact ==
    pfPc = "done"
        => /\ NonNegative(pfCall)
           /\ NonNegative(pfPut)
           /\ FEq(CallPlusStrike, PutPlusSpot)

\* C7 amended: both payoffs are non-negative, one of them is zero, and the
\* two sides of the identity differ by at most one unit in the last place
\* of the larger argument; they are equal whenever the difference of the
\* arguments is a float.
C7_PayoffIdentityRounded ==
    pfPc = "done"
        => LET big  == Max(pfArgs.spot.m, pfArgs.strike.m)
               diff == Abs(pfArgs.spot.m - pfArgs.strike.m)
           IN  /\ NonNegative(pfCall)
               /\ NonNegative(pfPut)
               /\ IsZero(pfCall) \/ IsZero(pfPut)
               /\ IsFin(CallPlusStrike) /\ IsFin(PutPlusSpot)
               /\ Abs(Val(CallPlusStrike) - Val(PutPlusSpot)) <= Ulp(big)
               /\ Representable(diff) => FEq(CallPlusStrike, PutPlusSpot)

\* C7 witness: payoffs evaluated where strike - spot is not a float, so
\* the put payoff is rounded and the two sides differ.
C7_Witness ==
    /\ pfPc = "done"
    /\ Positive(pfArgs.spot)
    /\ FLt(pfArgs.spot, pfArgs.strike)
    /\ Positive(pfPut)
    /\ ~FEq(CallPlusStrike, PutPlusSpot)

\* C8: however the statements of concurrent calls interleave, each call
\* ends exactly as it does when run alone: the same exception, or the same
\* price.
C8_CallsIndependent ==
    \A c \in Calls :
        Ended(c) => [exc |-> exc[c], ret |-> ret[c]] = RunAlone(args[c])

\* C8 witness: two calls with different step counts have both returned,
\* and their printed records show their loops interleaved.
C8_Witness ==
    /\ pc[1] = "returned" /\ pc[2] = "returned"
    /\ args[1].n # args[2].n
    /\ Positive(ret[1]) /\ Positive(ret[2])
    /\ \E j1 \in 1..Len(stdout), j2 \in 1..Len(stdout), j3 \in 1..Len(stdout) :
          /\ j1 < j2 /\ j2 < j3
          /\ stdout[j1].call = 1 /\ stdout[j2].call = 2 /\ stdout[j3].call = 1

\* Whether call c has computed both u and d.
FactorsSet(c) == Started(c) /\ pc[c] \notin {"l125", "l126", "l127", "l128", "raised"}

\* C10 as stated: for valid market parameters and n >= 1, u > 1 > d > 0:
\* the up exponent is strictly positive and the down exponent strictly
\* negative.
C10_UpAboveOneAboveDown ==
    \A c \in Calls :
        (FactorsSet(c) /\ ValidMarket(args[c]) /\ PositiveInt(args[c].n))
            => /\ Positive(UpExponent(args[c], h[c]))
               /\ FLt(DownExponent(args[c], h[c]), Zero(1))
               /\ FLt(One, u[c])
               /\ FLt(d[c], One)
               /\ Positive(d[c])

\* C10 amended: for valid market parameters and n >= 1 whose exponents do
\* not overflow, u >= d >= 0, and the up exponent is strictly positive and
\* the down exponent strictly negative exactly when |(r - q) h| <
\* v sqrt(h); then u >= 1 >= d.
C10_FactorsOrdered ==
    \A c \in Calls :
        (FactorsSet(c) /\ ValidMarket(args[c]) /\ PositiveInt(args[c].n))
            => LET a     == args[c]
                   drift == FMul(FSub(a.r, a.q), h[c])
                   vol   == FMul(a.v, FSqrt(h[c]))
                   up    == UpExponent(a, h[c])
                   down  == DownExponent(a, h[c])
               IN  (IsFin(up) /\ IsFin(down)) =>
                   /\ FLe(d[c], u[c])
                   /\ NonNegative(d[c])
                   /\ (Positive(up) /\ FLt(down, Zero(1)))
                         <=> (FLt(drift, vol) /\ FLt(FNeg(vol), drift))
                   /\ (Positive(up) /\ FLt(down, Zero(1)))
                         => (FLe(One, u[c]) /\ FLe(d[c], One))

\* C10 witness: valid parameters whose drift is smaller than the
\* volatility term: the factors are computed and u > 1 > d > 0.
C10_Witness ==
    /\ FactorsSet(1)
    /\ ValidMarket(args[1])
    /\ PositiveInt(args[1].n)
    /\ Positive(FSub(args[1].r, args[1].q))
    /\ FLt(One, u[1])
    /\ FLt(d[1], One)
    /\ Positive(d[1])

=============================================================================
